---- MODULE Spec2Model ----
(***************************************************************************)
(* A model of nasxplorer.py, the CIFS share explorer: the share selector,  *)
(* the recursive share walk with its accumulators, the size and time       *)
(* bucketers, the type classifier, the top-N selector and the main loop    *)
(* that assembles one report per share and writes the result once.         *)
(*                                                                         *)
(* Strings whose characters the code inspects (share names, file names,    *)
(* type keys) are sequences of one-character strings.  Python lists are    *)
(* sequences; a Python dict is a sequence of <<key, value>> pairs in       *)
(* insertion order, which is the order dict.items() yields.                *)
(***************************************************************************)
EXTENDS Integers, Sequences, FiniteSets, TLC

VARIABLES
    \* --- the main program (__main__ and get_share_content) ---
    pc,            \* position of __main__: "start", "loop", "walk", "done"
    fs,            \* the server's file system: n, parent, kind, deniedRoots
    available,     \* conn.listShares(): the share names the server exposes
    include,       \* input['include']
    exclude,       \* input['exclude']
    today,         \* date.today(), a calendar date [y, m, d]
    shares,        \* the list get_shares returned
    idx,           \* position of the "for share in shares" loop (1-based)
    stack,         \* the active get_share_content calls, innermost last
    content_data,  \* the accumulator dict of the share being walked
    data,          \* the scan result: <<share, report>> pairs in insertion order
    written,       \* number of times the result was dumped to the JSON file
    listCalls,     \* history: listPath calls per node during the current walk
    seen,          \* history: entries the current walk's for loop has reached
    listLog,       \* history: the share index of each listPath call, in order
    \* --- one call of a pure function ---
    pcf,           \* "ready" before the call, "returned" after it
    arg,           \* the arguments of the call
    ret            \* the value returned

mainVars == <<pc, fs, available, include, exclude, today, shares, idx, stack,
              content_data, data, written, listCalls, seen, listLog>>
pureVars == <<pcf, arg, ret>>
vars == <<pc, fs, available, include, exclude, today, shares, idx, stack,
          content_data, data, written, listCalls, seen, listLog, pcf, arg, ret>>

----------------------------------------------------------------------------
(* Bounds of the model. *)

MaxNodes == 3       \* entries below the root of the share, single-share walk
MaxMainNodes == 2   \* entries below all share roots, multi-share run
MaxFairNodes == 2   \* entries below the root of the share, run under fairness
MaxTypes == 3       \* distinct keys of a type-frequency map
MaxCount == 3       \* largest count of one type key
MaxTop == 4         \* largest 'top' argument
MaxSizes == 3       \* length of a list of file sizes
MaxTimes == 2       \* length of a list of timestamps
MaxAvail == 3       \* number of shares the server lists
MaxSel == 1         \* length of the include and of the exclude list

----------------------------------------------------------------------------
(* Generic helpers for sequences. *)

Range(s) == {s[i] : i \in 1..Len(s)}

SeqsUpTo(S, n) == UNION {[1..k -> S] : k \in 0..n}

Min2(a, b) == IF a <= b THEN a ELSE b

Front(s) == SubSeq(s, 1, Len(s) - 1)

\* Python's seq[k] for a 0-based index k that may be negative.
PyIndex(s, k) == IF k < 0 THEN s[Len(s) + k + 1] ELSE s[k + 1]

----------------------------------------------------------------------------
(* breakdown_sizes *)

threshold_1 == 100 * 1024
threshold_2 == 1024 * 1024
threshold_3 == 1024 * 1024 * 1024

\* The branch of the if/elif chain a size takes: 1..4.
SizeBucketLax(item) ==
    IF item < threshold_1 THEN 1
    ELSE IF threshold_1 < item /\ item < threshold_2 THEN 2
    ELSE IF threshold_2 < item /\ item < threshold_3 THEN 3
    ELSE 4

SizeBucket(item) ==
    IF item <= threshold_1 THEN 1
    ELSE IF threshold_1 < item /\ item <= threshold_2 THEN 2
    ELSE IF threshold_2 < item /\ item <= threshold_3 THEN 3
    ELSE 4

RECURSIVE breakdown_sizes(_)
breakdown_sizes(list) ==
    IF list = <<>>
    THEN [threshold_1 |-> 0, threshold_2 |-> 0, threshold_3 |-> 0, threshold_4 |-> 0]
    ELSE LET r == breakdown_sizes(Front(list))
             b == SizeBucket(list[Len(list)])
         IN  [threshold_1 |-> r.threshold_1 + (IF b = 1 THEN 1 ELSE 0),
              threshold_2 |-> r.threshold_2 + (IF b = 2 THEN 1 ELSE 0),
              threshold_3 |-> r.threshold_3 + (IF b = 3 THEN 1 ELSE 0),
              threshold_4 |-> r.threshold_4 + (IF b = 4 THEN 1 ELSE 0)]

----------------------------------------------------------------------------
(* Calendar dates: datetime.date, relativedelta and utcfromtimestamp. *)

IsLeap(y) == (y % 4 = 0 /\ y % 100 # 0) \/ y % 400 = 0

\* calendar.monthrange(y, m)[1]
DaysInMonth(y, m) ==
    IF m = 2 THEN (IF IsLeap(y) THEN 29 ELSE 28)
    ELSE IF m \in {4, 6, 9, 11} THEN 30 ELSE 31

\* Days from 1970-01-01 to the civil date d (proleptic Gregorian calendar).
DaysFromCivil(d) ==
    LET y   == IF d.m <= 2 THEN d.y - 1 ELSE d.y
        era == y \div 400
        yoe == y - era * 400
        mp  == IF d.m > 2 THEN d.m - 3 ELSE d.m + 9
        doy == (153 * mp + 2) \div 5 + d.d - 1
        doe == yoe * 365 + yoe \div 4 - yoe \div 100 + doy
    IN  era * 146097 + doe - 719468

\* date - relativedelta(months=+k): relativedelta normalises 12 months to a
\* year, steps the month, and clamps the day to the target month's length.
MinusMonths(d, k) ==
    LET t == d.y * 12 + (d.m - 1) - k
        y == t \div 12
        m == (t % 12) + 1
    IN  [y |-> y, m |-> m, d |-> Min2(DaysInMonth(y, m), d.d)]

\* datetime.utcfromtimestamp(time).date(), as a day number.
UtcDay(time) == time \div 86400

\* The day numbers of the five boundaries, smallest window first.
\* relativedelta(hours=+24) is normalised to one day, so every boundary is a
\* date and the comparison is between calendar dates.
Boundary(k, t) ==
    CASE k = 1 -> DaysFromCivil(t) - 1
      [] k = 2 -> DaysFromCivil(t) - 7
      [] k = 3 -> DaysFromCivil(MinusMonths(t, 1))
      [] k = 4 -> DaysFromCivil(MinusMonths(t, 3))
      [] k = 5 -> DaysFromCivil(MinusMonths(t, 12))

\* Mutant: the chain of ifs without its 'continue' statements increments the
\* counter of every window whose test passes.
WindowsHitNoContinue(time, t) == {k \in 1..5 : UtcDay(time) >= Boundary(k, t)}

\* The counters the chain of ifs of breakdown_access increments for one
\* timestamp: the first whose test passes (then 'continue'), none when no
\* test passes.
WindowsHit(time, t) ==
    IF UtcDay(time) >= Boundary(1, t) THEN {1}
    ELSE IF UtcDay(time) >= Boundary(2, t) THEN {2}
    ELSE IF UtcDay(time) >= Boundary(3, t) THEN {3}
    ELSE IF UtcDay(time) >= Boundary(4, t) THEN {4}
    ELSE IF UtcDay(time) >= Boundary(5, t) THEN {5}
    ELSE {}

\* list.sort(reverse=True) on numbers.
RECURSIVE SortDesc(_)
SortDesc(s) ==
    IF s = <<>> THEN <<>>
    ELSE LET r == SortDesc(Front(s))
             x == s[Len(s)]
             k == Cardinality({i \in 1..Len(r) : r[i] >= x})
         IN  SubSeq(r, 1, k) \o <<x>> \o SubSeq(r, k + 1, Len(r))

\* The empty string "" that fills the result of breakdown_access on an empty
\* list; every real value of that dict is a non-negative number.
EMPTY == -1

CountWindow(list, t, k) == Cardinality({i \in 1..Len(list) : k \in WindowsHit(list[i], t)})

breakdown_access(list, t) ==
    LET sorted == SortDesc(list)
    IN  IF Len(sorted) > 0
        THEN [last           |-> sorted[1],
              last_24_hours  |-> CountWindow(sorted, t, 1),
              last_7_days    |-> CountWindow(sorted, t, 2),
              last_month     |-> CountWindow(sorted, t, 3),
              last_3_months  |-> CountWindow(sorted, t, 4),
              last_12_months |-> CountWindow(sorted, t, 5)]
        ELSE [last           |-> EMPTY,
              last_24_hours  |-> EMPTY,
              last_7_days    |-> EMPTY,
              last_month     |-> EMPTY,
              last_3_months  |-> EMPTY,
              last_12_months |-> EMPTY]

----------------------------------------------------------------------------
(* update_type and get_top_types *)

\* str.lower() on the characters the model uses.
LowerChar(c) ==
    CASE c = "T" -> "t"
      [] c = "X" -> "x"
      [] c = "G" -> "g"
      [] OTHER -> c

Lower(s) == [i \in 1..Len(s) |-> LowerChar(s[i])]

\* Index of the last '.', 0 when there is none.
LastDot(s) ==
    LET dots == {i \in 1..Len(s) : s[i] = "."}
    IN  IF dots = {} THEN 0 ELSE CHOOSE i \in dots : \A j \in dots : j <= i

\* filename.rsplit('.', 1)[1].lower(), or ' ' when the name has no dot.
FileType(filename) ==
    IF LastDot(filename) > 0
    THEN Lower(SubSeq(filename, LastDot(filename) + 1, Len(filename)))
    ELSE <<" ">>

update_type(filename, types) ==
    LET filetype == FileType(filename)
        at == {i \in 1..Len(types) : types[i][1] = filetype}
    IN  IF at # {}
        THEN [i \in 1..Len(types) |->
                 IF i \in at THEN <<types[i][1], types[i][2] + 1>> ELSE types[i]]
        ELSE Append(types, <<filetype, 1>>)

\* sorted(list.items(), reverse=True, key=lambda x: x[1]): a stable sort, so
\* items of equal count keep their insertion order.
RECURSIVE SortedItems(_)
SortedItems(s) ==
    IF s = <<>> THEN <<>>
    ELSE LET r == SortedItems(Front(s))
             x == s[Len(s)]
             k == Cardinality({i \in 1..Len(r) : r[i][2] >= x[2]})
         IN  SubSeq(r, 1, k) \o <<x>> \o SubSeq(r, k + 1, Len(r))

get_top_types(list, top) ==
    LET sorted == SortedItems(list)
    IN  IF Len(sorted) < top
        THEN [i \in 1..Len(sorted) |-> sorted[i][1]]
        ELSE [i \in 1..top |-> PyIndex(sorted, (i - 1) - 1)[1]]

----------------------------------------------------------------------------
(* get_shares *)

\* Mutant: applying the exclude list to a non-empty include list too.
get_shares_filtering(share_list, include_list, exclude_list) ==
    LET src == IF include_list = <<>> THEN share_list ELSE include_list
    IN  SelectSeq(src, LAMBDA name :
            name \notin Range(exclude_list) /\ name[Len(name)] # "$")

get_shares(share_list, include_list, exclude_list) ==
    IF include_list = <<>>
    THEN SelectSeq(share_list, LAMBDA name :
             name \notin Range(exclude_list) /\ name[Len(name)] # "$")
    ELSE include_list

----------------------------------------------------------------------------
(* Values the inputs are drawn from. *)

ShareA == <<"A">>
ShareB == <<"B">>
ShareC == <<"C", "$">>
ShareIPC == <<"I", "P", "C", "$">>
SharePool == {ShareA, ShareB, ShareC, ShareIPC}

Injective(s) == \A i, j \in 1..Len(s) : s[i] = s[j] => i = j

\* Sizes on and around the three bucket bounds.
SizePool == {0, 1, 102399, 102400, 102401, 1048576, 1048577,
             1073741824, 1073741825}

\* Days on which the month arithmetic clamps, crosses a leap day or a year.
Todays == {[y |-> 2019, m |-> 3, d |-> 31],
           [y |-> 2020, m |-> 2, d |-> 29],
           [y |-> 2019, m |-> 1, d |-> 15]}

\* Ages in days on and around the five boundaries (-1: a timestamp of tomorrow).
DayOffsets == {-1, 0, 1, 2, 7, 8, 30, 31, 32, 90, 91, 92, 93, 365, 366, 367}

\* Epoch seconds at the first and at the last second of those days.
TimePool(t) ==
    {(DaysFromCivil(t) - off) * 86400 + sec : off \in DayOffsets, sec \in {0, 86399}}

TypeKeyPool == {<<"t", "x", "t">>, <<"g", "z">>, <<" ">>, <<>>}

\* Type-frequency maps as update_type builds them: distinct keys, counts >= 1.
TypeMaps ==
    {m \in SeqsUpTo(TypeKeyPool \X (1..MaxCount), MaxTypes) :
        \A i, j \in 1..Len(m) : m[i][1] = m[j][1] => i = j}

----------------------------------------------------------------------------
(* The main program's variables while only a pure function is exercised. *)

MainIdle ==
    /\ pc = "idle"
    /\ fs = <<>>
    /\ available = <<>>
    /\ include = <<>>
    /\ exclude = <<>>
    /\ today = [y |-> 1970, m |-> 1, d |-> 1]
    /\ shares = <<>>
    /\ idx = 1
    /\ stack = <<>>
    /\ content_data = <<>>
    /\ data = <<>>
    /\ written = 0
    /\ listCalls = <<>>
    /\ seen = {}
    /\ listLog = <<>>

----------------------------------------------------------------------------
(* One call of breakdown_sizes. *)

InitSizes ==
    /\ MainIdle
    /\ pcf = "ready"
    /\ arg \in [list : SeqsUpTo(SizePool, MaxSizes)]
    /\ ret = <<>>

CallSizes ==
    /\ pcf = "ready"
    /\ ret' = breakdown_sizes(arg.list)
    /\ pcf' = "returned"
    /\ UNCHANGED <<arg, mainVars>>

SpecSizes == InitSizes /\ [][CallSizes]_vars

----------------------------------------------------------------------------
(* One call of breakdown_access.  The call sorts its argument in place. *)

InitAccess ==
    /\ MainIdle
    /\ pcf = "ready"
    /\ \E t \in Todays :
          arg \in [list : SeqsUpTo(TimePool(t), MaxTimes), today : {t}]
    /\ ret = <<>>

CallAccess ==
    /\ pcf = "ready"
    /\ ret' = breakdown_access(arg.list, arg.today)
    /\ arg' = [arg EXCEPT !.list = SortDesc(@)]
    /\ pcf' = "returned"
    /\ UNCHANGED mainVars

SpecAccess == InitAccess /\ [][CallAccess]_vars

----------------------------------------------------------------------------
(* One call of get_top_types. *)

InitTop ==
    /\ MainIdle
    /\ pcf = "ready"
    /\ arg \in [list : TypeMaps, top : 0..MaxTop]
    /\ ret = <<>>

CallTop ==
    /\ pcf = "ready"
    /\ ret' = get_top_types(arg.list, arg.top)
    /\ pcf' = "returned"
    /\ UNCHANGED <<arg, mainVars>>

SpecTop == InitTop /\ [][CallTop]_vars

----------------------------------------------------------------------------
(* One call of get_shares. *)

InitShares ==
    /\ MainIdle
    /\ pcf = "ready"
    /\ arg \in [share_list   : {s \in SeqsUpTo(SharePool, MaxAvail) : Injective(s)},
                include_list : SeqsUpTo(SharePool, MaxSel),
                exclude_list : SeqsUpTo(SharePool, MaxSel)]
    /\ ret = <<>>

CallShares ==
    /\ pcf = "ready"
    /\ ret' = get_shares(arg.share_list, arg.include_list, arg.exclude_list)
    /\ pcf' = "returned"
    /\ UNCHANGED <<arg, mainVars>>

SpecShares == InitShares /\ [][CallShares]_vars

----------------------------------------------------------------------------
(* Claims about the pure functions. *)

\* C6: breakdown_sizes puts each size in exactly one of four buckets with
\* inclusive upper bounds 102400, 1048576 and 1073741824 (a size equal to a
\* bound falls in the lower bucket, a larger one in the overflow bucket); the
\* four counts sum to the list length and the empty list yields four zeros.
C6_SizeBuckets ==
    pcf = "returned" =>
        LET l == arg.list
            N(lo, hi) == Cardinality({i \in 1..Len(l) : lo < l[i] /\ l[i] <= hi})
        IN  /\ ret.threshold_1 = N(-1, 102400)
            /\ ret.threshold_2 = N(102400, 1048576)
            /\ ret.threshold_3 = N(1048576, 1073741824)
            /\ ret.threshold_4 = Cardinality({i \in 1..Len(l) : l[i] > 1073741824})
            /\ ret.threshold_1 + ret.threshold_2 + ret.threshold_3 + ret.threshold_4
                   = Len(l)
            /\ (l = <<>> => ret = [threshold_1 |-> 0, threshold_2 |-> 0,
                                    threshold_3 |-> 0, threshold_4 |-> 0])

C6_Witness ==
    /\ pcf = "returned"
    /\ arg.list = <<102400, 1048576, 1073741825>>
    /\ ret = [threshold_1 |-> 1, threshold_2 |-> 1, threshold_3 |-> 0, threshold_4 |-> 1]

\* The smallest of the five windows a timestamp's UTC date falls in, 0 when it
\* is older than 12 months.
NearestWindow(time, t) ==
    LET fits == {k \in 1..5 : UtcDay(time) >= Boundary(k, t)}
    IN  IF fits = {} THEN 0 ELSE CHOOSE k \in fits : \A j \in fits : k <= j

\* C5: for a non-empty list, breakdown_access counts each timestamp in at most
\* one window, the first one its UTC date satisfies in the order 24 hours,
\* 7 days, 1 month, 3 months, 12 months, and a timestamp older than 12 months
\* in none; the five counts sum to the number of timestamps not older than
\* 12 months; a list of only older timestamps yields five zeros; 'last' is the
\* maximum timestamp.
C5_NearestWindow ==
    (pcf = "returned" /\ arg.list # <<>>) =>
        LET l == arg.list
            t == arg.today
            In(k) == Cardinality({i \in 1..Len(l) : NearestWindow(l[i], t) = k})
            young == {i \in 1..Len(l) : UtcDay(l[i]) >= Boundary(5, t)}
        IN  /\ ret.last_24_hours = In(1)
            /\ ret.last_7_days = In(2)
            /\ ret.last_month = In(3)
            /\ ret.last_3_months = In(4)
            /\ ret.last_12_months = In(5)
            /\ ret.last_24_hours + ret.last_7_days + ret.last_month
                   + ret.last_3_months + ret.last_12_months = Cardinality(young)
            /\ (young = {} =>
                   /\ ret.last_24_hours = 0 /\ ret.last_7_days = 0
                   /\ ret.last_month = 0 /\ ret.last_3_months = 0
                   /\ ret.last_12_months = 0)
            /\ ret.last \in Range(l)
            /\ \A i \in 1..Len(l) : l[i] <= ret.last

\* A timestamp inside 24 hours (which passes all five tests) together with one
\* older than 12 months.
C5_Witness ==
    /\ pcf = "returned"
    /\ Len(arg.list) = 2
    /\ UtcDay(arg.list[1]) = DaysFromCivil(arg.today)
    /\ UtcDay(arg.list[2]) < Boundary(5, arg.today)
    /\ ret.last_24_hours = 1
    /\ ret.last_12_months = 0

Keys(list) == {list[i][1] : i \in 1..Len(list)}

CountIn(list, key) == list[CHOOSE i \in 1..Len(list) : list[i][1] = key][2]

\* C3: for a map with at least n entries, get_top_types(map, n) returns
\* exactly n distinct keys, and no key left out has a strictly higher count
\* than a key in the result.
C3_TopN ==
    (pcf = "returned" /\ Len(arg.list) >= arg.top) =>
        /\ Len(ret) = arg.top
        /\ Injective(ret)
        /\ Range(ret) \subseteq Keys(arg.list)
        /\ \A out \in Keys(arg.list) \ Range(ret) : \A in \in Range(ret) :
               CountIn(arg.list, out) <= CountIn(arg.list, in)

\* C4: for n >= the number of distinct keys, get_top_types(map, n) returns
\* every key exactly once, in descending-frequency order.
C4_AllDescending ==
    (pcf = "returned" /\ arg.top >= Len(arg.list)) =>
        /\ Len(ret) = Len(arg.list)
        /\ Range(ret) = Keys(arg.list)
        /\ \A i \in 1..(Len(ret) - 1) :
               CountIn(arg.list, ret[i]) >= CountIn(arg.list, ret[i + 1])

\* C7: get_shares returns the include list verbatim when it is non-empty;
\* otherwise, in the order of the available shares, exactly the available
\* names that are not excluded and do not end with '$'.
C7_ShareSelection ==
    pcf = "returned" =>
        LET av == arg.share_list
            Pos(n) == CHOOSE i \in 1..Len(av) : av[i] = n
        IN  /\ arg.include_list # <<>> => ret = arg.include_list
            /\ arg.include_list = <<>> =>
                  /\ Range(ret) = {n \in Range(av) :
                        n \notin Range(arg.exclude_list) /\ n[Len(n)] # "$"}
                  /\ Injective(ret)
                  /\ \A i, j \in 1..Len(ret) : i < j => Pos(ret[i]) < Pos(ret[j])
            /\ (av = <<ShareA, ShareB, ShareC>> /\ arg.include_list = <<>>
                    /\ arg.exclude_list = <<ShareB>>) => ret = <<ShareA>>

C7_Witness ==
    /\ pcf = "returned"
    /\ arg.share_list = <<ShareA, ShareB, ShareC>>
    /\ arg.include_list = <<>>
    /\ arg.exclude_list = <<ShareB>>
    /\ ret = <<ShareA>>


----------------------------------------------------------------------------
(* The server: shares and their directory trees.                           *)
(*                                                                         *)
(* Entries below the share roots are numbered 1..fs.n; the root of the     *)
(* k-th share of ShareUniverse is node -k.  fs.parent[e] is the directory  *)
(* entry e lies in, and fs.kind[e] says what e is: a directory that lists  *)
(* ("dir"), a directory whose listPath raises OperationFailure ("denied"), *)
(* a file whose attributes all read ("file"), or a file one of whose       *)
(* attribute reads raises OperationFailure, named after the statement of   *)
(* the try block that raises ("size", "atime", "wtime", "size2").          *)

ShareUniverse == <<ShareA, ShareB, ShareC, ShareIPC>>

ShareIndex(name) == CHOOSE k \in 1..Len(ShareUniverse) : ShareUniverse[k] = name

RootId(name) == 0 - ShareIndex(name)

IsRoot(d) == d < 0

DirKinds == {"dir", "denied"}
FileKinds == {"file", "size", "atime", "wtime", "size2"}

Nodes == 1..fs.n

IsDir(e) == fs.kind[e] \in DirKinds

Children(d) == {e \in Nodes : fs.parent[e] = d}

\* Attributes of the entry numbered e, fixed by its number.
FileNames == << <<"r", ".", "T", "X", "T">>,
                <<"R", "E", "A", "D", "M", "E">>,
                <<"a", ".", "b", ".", "t", "x", "t">>,
                <<"a", ".", "t", "a", "r", ".", "g", "z">> >>
FileSizes == <<102400, 134217728, 1073741825, 5368710>>
AccessAges == <<0, 40, 400, 5>>
WriteAges == <<3, 100, 800, 20>>

Cyc(seq, e) == seq[((e - 1) % Len(seq)) + 1]

EntryOf(e) ==
    IF IsDir(e)
    THEN [filename |-> <<"d">>, isDirectory |-> TRUE, node |-> e,
          file_size |-> 0, last_access_time |-> 0, last_write_time |-> 0]
    ELSE [filename |-> Cyc(FileNames, e), isDirectory |-> FALSE, node |-> e,
          file_size |-> Cyc(FileSizes, e),
          last_access_time |-> (DaysFromCivil(today) - Cyc(AccessAges, e)) * 86400 + 3600,
          last_write_time |-> (DaysFromCivil(today) - Cyc(WriteAges, e)) * 86400 + 3600]

PseudoEntry(name, d) ==
    [filename |-> name, isDirectory |-> TRUE, node |-> d,
     file_size |-> 0, last_access_time |-> 0, last_write_time |-> 0]

RECURSIVE SetToSeq(_)
SetToSeq(S) ==
    IF S = {} THEN <<>>
    ELSE LET x == CHOOSE x \in S : \A y \in S : x <= y
         IN  <<x>> \o SetToSeq(S \ {x})

\* What listPath returns for directory d: the '.' and '..' pseudo-entries,
\* then the entries of d.
Listing(d) ==
    LET c == SetToSeq(Children(d))
    IN  <<PseudoEntry(<<".">>, d),
          PseudoEntry(<<".", ".">>, IF IsRoot(d) THEN d ELSE fs.parent[d])>>
        \o [i \in 1..Len(c) |-> EntryOf(c[i])]

\* listPath raises OperationFailure: the directory is not accessible, or the
\* share does not exist on the server.
ListingFails(d) ==
    IF IsRoot(d)
    THEN d \in fs.deniedRoots \/ ShareUniverse[0 - d] \notin Range(available)
    ELSE fs.kind[d] = "denied"

\* Number of statements of the try block (lines 259-264) that complete
\* before an attribute read raises.
StatementsDone(kind) ==
    CASE kind = "size"  -> 0
      [] kind = "atime" -> 2
      [] kind = "wtime" -> 3
      [] kind = "size2" -> 4
      [] OTHER          -> 6

----------------------------------------------------------------------------
(* get_share_content *)

EmptyContent ==
    [folders |-> 0, files |-> 0, size |-> 0, last_accessed |-> <<>>,
     last_write |-> <<>>, file_sizes |-> <<>>, types |-> <<>>]

\* The try block for a file entry, cut after its first 'done' statements.
\* data['size'] is a float number of GiB; file_size / 1024 / 1024 / 1024 and
\* the sums of such quotients are exact in binary floating point below 2^53
\* bytes, so the model keeps 'size' as that float times 2^30.
FileAccumulate(cd, y, done) ==
    [folders       |-> cd.folders,
     size          |-> IF done >= 1 THEN cd.size + y.file_size ELSE cd.size,
     files         |-> IF done >= 2 THEN cd.files + 1 ELSE cd.files,
     last_accessed |-> IF done >= 3 THEN Append(cd.last_accessed, y.last_access_time)
                       ELSE cd.last_accessed,
     last_write    |-> IF done >= 4 THEN Append(cd.last_write, y.last_write_time)
                       ELSE cd.last_write,
     file_sizes    |-> IF done >= 5 THEN Append(cd.file_sizes, y.file_size)
                       ELSE cd.file_sizes,
     types         |-> IF done >= 6 THEN update_type(y.filename, cd.types)
                       ELSE cd.types]

IsPseudo(y) == y.filename = <<".">> \/ y.filename = <<".", ".">>

Top == stack[Len(stack)]

Pop == SubSeq(stack, 1, Len(stack) - 1)

Advance == [stack EXCEPT ![Len(stack)].i = @ + 1]

Walking == pc = "walk" /\ stack # <<>>

AtEntry == Walking /\ Top.i >= 1 /\ Top.i <= Len(Listing(Top.node))

Current == Listing(Top.node)[Top.i]

\* listPath succeeds: the for loop starts at the first entry.
ListOk ==
    /\ Walking /\ Top.i = 0
    /\ ~ListingFails(Top.node)
    /\ listCalls' = [listCalls EXCEPT ![Top.node] = @ + 1]
    /\ listLog' = Append(listLog, idx)
    /\ stack' = Advance
    /\ UNCHANGED <<pc, fs, available, include, exclude, today, shares, idx,
                   content_data, data, written, seen, pureVars>>

\* Mutant: a failed listing that ends the whole walk instead of this call.
ListFailedAbort ==
    /\ Walking /\ Top.i = 0
    /\ ListingFails(Top.node)
    /\ listCalls' = [listCalls EXCEPT ![Top.node] = @ + 1]
    /\ listLog' = Append(listLog, idx)
    /\ stack' = <<>>
    /\ UNCHANGED <<pc, fs, available, include, exclude, today, shares, idx,
                   content_data, data, written, seen, pureVars>>

\* Mutant: a failed listing that is tried once more.
ListFailedRetry ==
    /\ Walking /\ Top.i = 0
    /\ ListingFails(Top.node)
    /\ listCalls' = [listCalls EXCEPT ![Top.node] = @ + 1]
    /\ listLog' = Append(listLog, idx)
    /\ stack' = IF listCalls[Top.node] = 0 THEN stack ELSE Pop
    /\ UNCHANGED <<pc, fs, available, include, exclude, today, shares, idx,
                   content_data, data, written, seen, pureVars>>

\* listPath raises OperationFailure: the outer except logs, and this call of
\* get_share_content returns to its caller.
ListFailed ==
    /\ Walking /\ Top.i = 0
    /\ ListingFails(Top.node)
    /\ listCalls' = [listCalls EXCEPT ![Top.node] = @ + 1]
    /\ listLog' = Append(listLog, idx)
    /\ stack' = Pop
    /\ UNCHANGED <<pc, fs, available, include, exclude, today, shares, idx,
                   content_data, data, written, seen, pureVars>>

\* Mutant: the '.' and '..' entries counted as folders (still not entered).
EntryPseudoCounted ==
    /\ AtEntry
    /\ \E y \in {Current} : y.isDirectory /\ IsPseudo(y)
    /\ content_data' = [content_data EXCEPT !.folders = @ + 1]
    /\ stack' = Advance
    /\ UNCHANGED <<pc, fs, available, include, exclude, today, shares, idx,
                   data, written, listCalls, seen, listLog, pureVars>>

\* A directory entry named '.' or '..': nothing happens.
EntryPseudo ==
    /\ AtEntry
    /\ \E y \in {Current} : y.isDirectory /\ IsPseudo(y)
    /\ stack' = Advance
    /\ UNCHANGED <<pc, fs, available, include, exclude, today, shares, idx,
                   content_data, data, written, listCalls, seen, listLog, pureVars>>

\* Any other directory entry: count it, then call get_share_content on it.
EntryDir ==
    /\ AtEntry
    /\ \E y \in {Current} :
          /\ y.isDirectory /\ ~IsPseudo(y)
          /\ content_data' = [content_data EXCEPT !.folders = @ + 1]
          /\ seen' = seen \cup {y.node}
          /\ stack' = Append(Advance, [node |-> y.node, i |-> 0])
    /\ UNCHANGED <<pc, fs, available, include, exclude, today, shares, idx,
                   data, written, listCalls, listLog, pureVars>>

\* A file entry: the try block, to its end or to the read that raises.
EntryFile ==
    /\ AtEntry
    /\ \E y \in {Current} :
          /\ ~y.isDirectory
          /\ content_data' = FileAccumulate(content_data, y,
                                            StatementsDone(fs.kind[y.node]))
          /\ seen' = seen \cup {y.node}
    /\ stack' = Advance
    /\ UNCHANGED <<pc, fs, available, include, exclude, today, shares, idx,
                   data, written, listCalls, listLog, pureVars>>

\* The for loop is exhausted: this call of get_share_content returns.
Return ==
    /\ Walking /\ Top.i > Len(Listing(Top.node))
    /\ stack' = Pop
    /\ UNCHANGED <<pc, fs, available, include, exclude, today, shares, idx,
                   content_data, data, written, listCalls, seen, listLog, pureVars>>

\* get_share_content as the recursive function it is: the accumulator after
\* the call on directory d, and after the entries i.. of a listing.
RECURSIVE WalkDir(_, _), WalkEntries(_, _, _)
WalkDir(d, cd) ==
    IF ListingFails(d) THEN cd ELSE WalkEntries(Listing(d), 1, cd)

WalkEntries(files_list, i, cd) ==
    IF i > Len(files_list) THEN cd
    ELSE LET y == files_list[i]
         IN  IF y.isDirectory
             THEN IF IsPseudo(y)
                  THEN WalkEntries(files_list, i + 1, cd)
                  ELSE WalkEntries(files_list, i + 1,
                                   WalkDir(y.node, [cd EXCEPT !.folders = @ + 1]))
             ELSE WalkEntries(files_list, i + 1,
                              FileAccumulate(cd, y, StatementsDone(fs.kind[y.node])))

----------------------------------------------------------------------------
(* __main__: the report of one share. *)

\* round(size, 2) of the float size = b / 2^30, in hundredths: the nearest
\* hundredth, an exact tie going to the even one.  b * 100 / 2^30 =
\* b * 25 / 2^28, computed in pieces that stay below 2^31.
Round2(b) ==
    LET q    == b \div 268435456
        r    == b % 268435456
        r1   == r \div 1024
        r0   == r % 1024
        a    == 25 * r1 + (25 * r0) \div 1024
        f    == (25 * r0) % 1024
        h    == 25 * q + a \div 262144
        rem  == a % 262144
    IN  IF rem > 131072 \/ (rem = 131072 /\ f > 0) THEN h + 1
        ELSE IF rem = 131072 /\ f = 0 THEN (IF h % 2 = 0 THEN h ELSE h + 1)
        ELSE h

\* ', '.join(top_types)
RECURSIVE Join(_)
Join(l) ==
    IF l = <<>> THEN <<>>
    ELSE IF Len(l) = 1 THEN l[1]
    ELSE l[1] \o <<",", " ">> \o Join(Tail(l))

\* str.strip(): leading and trailing blanks removed.
RECURSIVE Strip(_)
Strip(s) ==
    IF s = <<>> THEN s
    ELSE IF s[1] = " " THEN Strip(Tail(s))
    ELSE IF s[Len(s)] = " " THEN Strip(Front(s))
    ELSE s

MakeReport(cd, t) ==
    LET size_breakdown == breakdown_sizes(cd.file_sizes)
    IN  [folders |-> cd.folders,
         files |-> cd.files,
         size |-> Round2(cd.size),
         last_accessed |-> breakdown_access(cd.last_accessed, t),
         last_written |-> breakdown_access(cd.last_write, t),
         files_100KB |-> size_breakdown.threshold_1,
         files_1MB |-> size_breakdown.threshold_2,
         files_1GB |-> size_breakdown.threshold_3,
         files_bigger_than_1GB |-> size_breakdown.threshold_4,
         top_types |-> Strip(Join(get_top_types(cd.types, 5)))]

\* data[share] = report
DictSet(d, key, value) ==
    IF \E i \in 1..Len(d) : d[i][1] = key
    THEN [i \in 1..Len(d) |-> IF d[i][1] = key THEN <<key, value>> ELSE d[i]]
    ELSE Append(d, <<key, value>>)

DictHas(d, key) == \E i \in 1..Len(d) : d[i][1] = key

DictGet(d, key) == d[CHOOSE i \in 1..Len(d) : d[i][1] = key][2]

AllIds == {RootId(ShareUniverse[k]) : k \in 1..Len(ShareUniverse)} \cup Nodes

\* shares = get_shares(conn.listShares(), input['include'], input['exclude'])
SelectShares ==
    /\ pc = "start"
    /\ shares' = get_shares(available, include, exclude)
    /\ data' = <<>>
    /\ idx' = 1
    /\ pc' = "loop"
    /\ UNCHANGED <<fs, available, include, exclude, today, stack, content_data,
                   written, listCalls, seen, listLog, pureVars>>

\* Mutant: the accumulator created once, before the loop over the shares.
StartShareShared ==
    /\ pc = "loop" /\ idx <= Len(shares)
    /\ stack' = <<[node |-> RootId(shares[idx]), i |-> 0]>>
    /\ listCalls' = [e \in AllIds |-> 0]
    /\ seen' = {}
    /\ pc' = "walk"
    /\ UNCHANGED <<fs, available, include, exclude, today, shares, idx, data,
                   content_data, written, listLog, pureVars>>

\* The loop body up to the call get_share_content(conn, share, os.sep, ...):
\* a fresh accumulator, and the walk starts at the share's root.
StartShare ==
    /\ pc = "loop" /\ idx <= Len(shares)
    /\ content_data' = EmptyContent
    /\ stack' = <<[node |-> RootId(shares[idx]), i |-> 0]>>
    /\ listCalls' = [e \in AllIds |-> 0]
    /\ seen' = {}
    /\ pc' = "walk"
    /\ UNCHANGED <<fs, available, include, exclude, today, shares, idx, data,
                   written, listLog, pureVars>>

\* The walk has returned: the report is computed (breakdown_access sorts the
\* two time lists in place) and stored under the share's name.
FinishShare ==
    /\ pc = "walk" /\ stack = <<>>
    /\ data' = DictSet(data, shares[idx], MakeReport(content_data, today))
    /\ content_data' = [content_data EXCEPT !.last_accessed = SortDesc(@),
                                            !.last_write = SortDesc(@)]
    /\ idx' = idx + 1
    /\ pc' = "loop"
    /\ UNCHANGED <<fs, available, include, exclude, today, shares, stack,
                   written, listCalls, seen, listLog, pureVars>>

\* After the loop: json.dump(data, json_file), then the table is printed.
WriteOut ==
    /\ pc = "loop" /\ idx > Len(shares)
    /\ written' = written + 1
    /\ pc' = "done"
    /\ UNCHANGED <<fs, available, include, exclude, today, shares, idx, stack,
                   content_data, data, listCalls, seen, listLog, pureVars>>

Next ==
    \/ SelectShares
    \/ StartShare
    \/ ListOk
    \/ ListFailed
    \/ EntryPseudo
    \/ EntryDir
    \/ EntryFile
    \/ Return
    \/ FinishShare
    \/ WriteOut

----------------------------------------------------------------------------
(* Initial states. *)

MainToday == [y |-> 2019, m |-> 3, d |-> 31]

\* The file systems with n entries below the given roots.
FileSystems(roots, n) ==
    {f \in [n : {n},
            parent : [1..n -> roots \cup 1..n],
            kind : [1..n -> DirKinds \cup FileKinds],
            deniedRoots : SUBSET roots] :
        \A e \in 1..n :
            /\ f.parent[e] < e
            /\ f.parent[e] >= 1 => f.kind[f.parent[e]] \in DirKinds}

PureIdle == pcf = "idle" /\ arg = <<>> /\ ret = <<>>

InitProgram ==
    /\ pc = "start"
    /\ today = MainToday
    /\ shares = <<>>
    /\ idx = 1
    /\ stack = <<>>
    /\ content_data = EmptyContent
    /\ data = <<>>
    /\ written = 0
    /\ listCalls = [e \in AllIds |-> 0]
    /\ seen = {}
    /\ listLog = <<>>
    /\ PureIdle

\* One share with at most 'most' entries, scanned by default selection.
InitOneShare(most) ==
    /\ available = <<ShareA>>
    /\ include = <<>>
    /\ exclude = <<>>
    /\ \E n \in 0..most : fs \in FileSystems({RootId(ShareA)}, n)
    /\ InitProgram

Init == InitOneShare(MaxNodes)

Spec == Init /\ [][Next]_vars

\* The program is one thread that runs until it ends: a step that can be
\* taken is taken.
FairSpec == InitOneShare(MaxFairNodes) /\ [][Next]_vars /\ WF_vars(Next)

\* The share lists and selections of a run over several shares.
MainConfigs ==
    {[available |-> <<ShareA, ShareB, ShareC>>, include |-> <<>>, exclude |-> <<>>],
     [available |-> <<ShareA, ShareB, ShareC>>, include |-> <<ShareB, ShareA>>,
      exclude |-> <<ShareB>>],
     [available |-> <<ShareA>>, include |-> <<ShareA, ShareB, ShareA>>, exclude |-> <<>>],
     [available |-> <<ShareA, ShareB>>, include |-> <<>>, exclude |-> <<ShareA, ShareB>>]}

InitMain ==
    /\ \E c \in MainConfigs :
          /\ available = c.available
          /\ include = c.include
          /\ exclude = c.exclude
    /\ \E n \in 0..MaxMainNodes :
          fs \in {f \in FileSystems({RootId(ShareA), RootId(ShareB)}, n) :
                     f.deniedRoots = {}}
    /\ InitProgram

SpecMain == InitMain /\ [][Next]_vars

----------------------------------------------------------------------------
(* Claims about the share walk and the main loop. *)

\* The share being walked, and the root of its tree.
WalkRoot == RootId(shares[idx])

\* The walk of the current share has returned to __main__.
WalkEnded == pc = "walk" /\ stack = <<>>

RECURSIVE Ancestors(_)
Ancestors(e) ==
    IF IsRoot(e) THEN {} ELSE {fs.parent[e]} \cup Ancestors(fs.parent[e])

\* Entry e appears in a successful listing reached from the root r: every
\* directory from r down to the one holding e lists.
Reachable(e, r) ==
    /\ r \in Ancestors(e)
    /\ \A a \in Ancestors(e) : ~ListingFails(a)

RECURSIVE SizeSum(_)
SizeSum(S) ==
    IF S = {} THEN 0
    ELSE LET e == CHOOSE e \in S : TRUE
         IN  Cyc(FileSizes, e) + SizeSum(S \ {e})

RECURSIVE CountSum(_)
CountSum(types) ==
    IF types = <<>> THEN 0 ELSE types[1][2] + CountSum(Tail(types))

NoAttributeFailure == \A e \in Nodes : fs.kind[e] \in DirKinds \cup {"file"}

\* C1: a file entry whose attribute retrieval fails contributes to none of
\* the accumulators: at every point of the walk the file count, the
\* cumulative size, the three lists and the type-frequency map hold exactly
\* the files iterated so far whose attributes all read; so the three lists
\* are as long as the file count.
C1_FailedFileContributesNothing ==
    pc = "walk" =>
        LET good == {e \in seen : fs.kind[e] = "file"}
        IN  /\ content_data.files = Cardinality(good)
            /\ content_data.size = SizeSum(good)
            /\ Len(content_data.last_accessed) = content_data.files
            /\ Len(content_data.last_write) = content_data.files
            /\ Len(content_data.file_sizes) = content_data.files
            /\ Range(content_data.file_sizes) = {Cyc(FileSizes, e) : e \in good}
            /\ CountSum(content_data.types) = content_data.files

\* C2: when listPath fails for a directory, nothing inside it is visited or
\* accumulated and the walk goes on: at the end of the walk the entries
\* iterated over are exactly those of the successful listings reached from
\* the root, the sibling files that read are accumulated, every reachable
\* directory is counted, and the share gets its report.
C2_ListingFailureIsolated ==
    /\ WalkEnded =>
          /\ \A e \in Nodes : e \in seen <=> Reachable(e, WalkRoot)
          /\ \A e \in Nodes : ~Reachable(e, WalkRoot) =>
                /\ listCalls[e] = 0
                /\ Cyc(FileSizes, e) \notin Range(content_data.file_sizes)
          /\ \A e \in Nodes : (Reachable(e, WalkRoot) /\ fs.kind[e] = "file") =>
                Cyc(FileSizes, e) \in Range(content_data.file_sizes)
          /\ content_data.folders =
                Cardinality({e \in Nodes : IsDir(e) /\ Reachable(e, WalkRoot)})
    /\ pc = "done" => \A k \in 1..Len(shares) : DictHas(data, shares[k])

\* A directory whose listing fails, with an entry inside it that is never
\* visited and a later sibling that is visited, in a finished run.
C2_Witness ==
    /\ pc = "done"
    /\ written = 1
    /\ DictHas(data, ShareA)
    /\ \E d, c, sib \in Nodes :
          /\ fs.kind[d] = "denied" /\ d \in seen /\ listCalls[d] = 1
          /\ fs.parent[c] = d /\ c \notin seen
          /\ fs.parent[sib] = fs.parent[d] /\ sib > d /\ sib \in seen

\* C8: when no attribute read fails, whatever listings fail, at the end of
\* the walk the folder count is the number of directory entries in the
\* successful listings reached from the root (a directory whose own listing
\* fails included), the file count is the number of file entries in those
\* listings and the cumulative size is the sum of their sizes; '.' and '..'
\* are neither counted nor entered.
C8_CountsMatchTree ==
    (WalkEnded /\ NoAttributeFailure) =>
        LET dirs  == {e \in Nodes : IsDir(e) /\ Reachable(e, WalkRoot)}
            files == {e \in Nodes : ~IsDir(e) /\ Reachable(e, WalkRoot)}
        IN  /\ content_data.folders = Cardinality(dirs)
            /\ content_data.files = Cardinality(files)
            /\ content_data.size = SizeSum(files)
            /\ \A d \in AllIds : listCalls[d] <= 1

\* A listed directory holding a file and a directory whose listing fails.
C8_Witness ==
    /\ WalkEnded /\ NoAttributeFailure
    /\ content_data.folders >= 2
    /\ content_data.files >= 1
    /\ \E d \in Nodes : fs.kind[d] = "denied" /\ d \in seen
    /\ \E e \in Nodes : fs.kind[e] = "file" /\ e \in seen /\ fs.parent[e] >= 1

ListedOnce ==
    /\ \A d \in AllIds : listCalls[d] <= 1
    /\ Len(listLog) <= 1 + Cardinality({e \in Nodes : IsDir(e)})
    /\ WalkEnded =>
          \A d \in AllIds :
              listCalls[d] = 1 <=>
                  \/ d = WalkRoot
                  \/ d \in Nodes /\ IsDir(d) /\ Reachable(d, WalkRoot)

\* C9: during a walk listPath is called exactly once for the share root and
\* once for each non-pseudo directory entry of a successful listing, never
\* twice for a path (no failure is retried), and the walk of a finite tree
\* comes to its end.
C9_ListedOnceAndEnds == []ListedOnce /\ <>(pc = "done")

\* A finished run in which a listing failed and an attribute read failed.
C9_Witness ==
    /\ pc = "done"
    /\ \E d \in Nodes : fs.kind[d] = "denied" /\ listCalls[d] = 1
    /\ \E e \in Nodes : fs.kind[e] \in FileKinds \ {"file"} /\ e \in seen
    /\ Len(listLog) = 2

\* The report a run over this share alone stores for it.
SoloReport(name) == MakeReport(WalkDir(RootId(name), EmptyContent), today)

RECURSIVE Dedup(_)
Dedup(l) ==
    IF l = <<>> THEN <<>>
    ELSE LET r == Dedup(Front(l))
         IN  IF l[Len(l)] \in Range(r) THEN r ELSE Append(r, l[Len(l)])

\* C10: shares are walked one after another in the order of the share
\* selector (no listing for a later share before an earlier walk has ended),
\* each walk starts from an empty accumulator, so the report stored for a
\* share is the one scanning it alone produces and no other walk changes it,
\* and the result is written once, after the last share.
C10_SharesInOrderAndIsolated ==
    /\ \A i \in 1..Len(listLog) : listLog[i] <= idx
    /\ \A i \in 1..(Len(listLog) - 1) : listLog[i] <= listLog[i + 1]
    /\ pc \in {"loop", "walk", "done"} =>
          /\ [i \in 1..Len(data) |-> data[i][1]] = Dedup(SubSeq(shares, 1, idx - 1))
          /\ \A k \in 1..(idx - 1) : DictGet(data, shares[k]) = SoloReport(shares[k])
    /\ written = (IF pc = "done" THEN 1 ELSE 0)
    /\ pc = "done" => idx = Len(shares) + 1

\* Two shares with files walked in the selector's order, B before A.
C10_Witness ==
    /\ pc = "done"
    /\ shares = <<ShareB, ShareA>>
    /\ Len(data) = 2
    /\ DictGet(data, ShareB).files = 1
    /\ DictGet(data, ShareA).files = 1
    /\ written = 1

====
